---- MODULE Spec2Model ----
(***************************************************************************)
(* Model of the agent activities of hocus (app/agent/activities.ts).       *)
(*                                                                         *)
(* Spec     : one invocation of the body that prebuild passes to withVM:   *)
(*            N concurrent task flows (status writes, script upload, a     *)
(*            dedicated SSH session, exec + syncLogs), the first-failure   *)
(*            cancellation protocol, and the supervisor's allSettled.      *)
(* LiveSpec : Spec with the fairness of the Node event loop: every flow    *)
(*            that can continue does; a running command need not exit.     *)
(* SpecRetry: Spec, with prebuild invoked again for the same event.       *)
(* SpecVM   : concurrent prebuild activities, each one withVM scope over   *)
(*            the shared busy-IP file of the allocator.                    *)
(* SpecWorkspace : startWorkspace invocations (withVM without poweroff)    *)
(*            and the stopWorkspace that releases what they returned.      *)
(* SpecCheckout  : checkoutAndInspect invoked repeatedly on one output     *)
(*            drive.                                                       *)
(* SpecFetch     : fetchRepository invoked repeatedly on one output drive. *)
(* SpecPrebuild  : one prebuild activity from the lookup of its event      *)
(*            through its withVM scope, with the body of Spec inside.      *)
(***************************************************************************)
EXTENDS Integers, Sequences, FiniteSets, TLC

\* ---- bounds ------------------------------------------------------------
NumTasks == 2        \* prebuildEvent.prebuildTasks.length
MaxChunks == 2       \* stdout/stderr chunks delivered to the tasks of a prebuild event
MaxFaults == 1       \* database and SSH operations that fail for a prebuild event
MaxInvocations == 2  \* prebuild invocations for the same prebuild event in SpecRetry
NumCalls == 3        \* activity invocations (withVM scopes)
NumWorkspaces == 2   \* of these, the startWorkspace invocations of SpecWorkspace
PoolSize == 1        \* number of IP blocks in [MINIMUM_IP_ID, MAXIMUM_IP_ID]

Tasks == 1..NumTasks
Calls == 1..NumCalls
Workspaces == {c \in Calls : c <= NumWorkspaces}

\* ---- IP block pool (./constants, AgentStorageSchema) -----------------------
MINIMUM_IP_ID == 1
MAXIMUM_IP_ID == MINIMUM_IP_ID + PoolSize - 1

\* ---- VmTaskStatus (@prisma/client) --------------------------------------
VM_TASK_STATUS_PENDING == "VM_TASK_STATUS_PENDING"
VM_TASK_STATUS_RUNNING == "VM_TASK_STATUS_RUNNING"
VM_TASK_STATUS_SUCCESS == "VM_TASK_STATUS_SUCCESS"
VM_TASK_STATUS_ERROR == "VM_TASK_STATUS_ERROR"
VM_TASK_STATUS_CANCELLED == "VM_TASK_STATUS_CANCELLED"

Terminal == {VM_TASK_STATUS_SUCCESS, VM_TASK_STATUS_ERROR, VM_TASK_STATUS_CANCELLED}

VARIABLES
  \* database
  dbStatus,        \* vmTask.status of every task
  statusLog,       \* per task, the statuses persisted so far, in order
  dbLog,           \* per logGroupId (one per task), the Log rows in write order
  \* closure state of the withVM body
  cleanupStarted, taskSshHandles, taskFinished, taskCancelled,
  \* closure state of one withSsh body
  finished, syncCounter, logBuffer,
  \* control state of the flows
  pc,              \* position of taskPromises[i]
  exec,            \* state of the task's execSshCmd promise
  sync,            \* state of the task's syncLogs promise
  pendingRow,      \* the row handed to db.log.create while it is awaited
  err,             \* the error caught at line 405
  termStatus,      \* the status handed to updateStatus at line 417
  promise, reason, \* settlement of taskPromises[i]
  bodyPc, results, \* the supervisor: await allSettled, parsedResults
  \* history
  delivered,       \* per task, the chunks handed to onStdout/onStderr
  disposeCount,    \* per task, number of dispose() calls on its handle
  cleanupDisposals,\* per task, dispose() calls made by the cleanup at line 413
  firstFailed,     \* the first task whose flow threw into the catch (0: none)
  successBefore,   \* tasks persisted SUCCESS when the first failure was caught
  inFlight,        \* tasks whose exec was running when the first failure was caught
  termWriteFailed, \* tasks whose ERROR/CANCELLED write at line 417 failed
  faults,          \* infrastructure failures (database, SSH) injected so far
  invocation       \* number of the prebuild invocation for this prebuild event

prebuildVars == <<dbStatus, statusLog, dbLog, cleanupStarted, taskSshHandles,
                  taskFinished, taskCancelled, finished, syncCounter, logBuffer,
                  pc, exec, sync, pendingRow, err, termStatus, promise, reason,
                  bodyPc, results, delivered, disposeCount, cleanupDisposals,
                  firstFailed, successBefore, inFlight, termWriteFailed, faults,
                  invocation>>

VARIABLES
  \* the busy-IP persistence file and the withVM scopes of the activities
  busyIpIds,       \* AgentStorageSchema.busyIpIds
  vmPc,            \* position of each activity invocation
  vmIpBlockId,     \* the IP block its withVM scope holds (0: none)
  vmErr,           \* the errors its withVM scope has collected, in order
  vmTeardown,      \* the steps of shutdownVMAndReleaseResources run for it, in order
  vmThrown,        \* the error withVM has thrown to its caller
  storageLock,     \* the invocation inside the allocator's critical section (0: none)
  storageRead      \* the busy list that invocation read from the file

VARIABLES
  \* startWorkspace: the withVM body of lines 486-521, one per invocation
  wsPc,            \* position of the body
  wsTaskPc,        \* position of taskFn for every task
  wsKeysWritten,   \* /home/hocus/.ssh/authorized_keys was written (line 506)
  wsLaunched,      \* tasks whose background command was started (line 501)
  wsPids,          \* tasks whose PID was parsed (line 503)
  wsNetwork,       \* network visibility of the VM
  gatewayKeys,     \* invocations whose keys the SSH gateway has received
  wsResult,        \* the ipBlockId startWorkspace returned (0: none)
  wsStopped        \* stopWorkspace was invoked with the returned value

wsVars == <<wsPc, wsTaskPc, wsKeysWritten, wsLaunched, wsPids, wsNetwork,
            gatewayKeys, wsResult, wsStopped>>

VARIABLES
  \* checkoutAndInspect (lines 214-263), every invocation with the same arguments
  coPc,            \* position of each invocation
  coOutput         \* the file at args.outputDrivePath

coVars == <<coPc, coOutput>>

VARIABLES
  \* fetchRepository (lines 26-137), every invocation with the same arguments
  frPc,              \* position of each invocation
  frSshKey,          \* args.repository.credentials?.privateSshKey: given or null
  frOutputDriveExists, \* the constant of line 57, per invocation
  frRepositoryExists,  \* the constant of line 103, per invocation
  frDrive,           \* the file at args.outputDrive.pathOnHost exists
  frChowned,         \* the root of the drive belongs to hocus:hocus
  frGit,             \* project/.git on the drive
  frOps              \* per invocation: create, chown, clone, fetch as they succeeded

frVars == <<frPc, frSshKey, frOutputDriveExists, frRepositoryExists, frDrive,
            frChowned, frGit, frOps>>

fsVars == <<coVars, frVars>>

storageVars == <<busyIpIds, storageLock, storageRead>>

VARIABLES
  \* prebuild (lines 286-449) around its withVM scope
  pbPc,            \* position of the activity: lookup, withVM, returned, threw
  pbEvent          \* what findUniqueOrThrow found for args.prebuildEventId

pbVars == <<pbPc, pbEvent>>

vmVarsOfScopes == <<storageVars, vmPc, vmIpBlockId, vmErr, vmTeardown, vmThrown>>

vmVars == <<vmVarsOfScopes, wsVars, fsVars, pbVars>>

vars == <<prebuildVars, vmVars>>

NoRow == [idx |-> -1, content |-> <<>>]

NoError == [kind |-> "none", causes |-> <<>>]

Init ==
  /\ dbStatus = [i \in Tasks |-> VM_TASK_STATUS_PENDING]
  /\ statusLog = [i \in Tasks |-> <<>>]
  /\ dbLog = [i \in Tasks |-> <<>>]
  /\ cleanupStarted = FALSE
  /\ taskSshHandles = <<>>
  /\ taskFinished = [i \in Tasks |-> FALSE]
  /\ taskCancelled = [i \in Tasks |-> FALSE]
  /\ finished = [i \in Tasks |-> FALSE]
  /\ syncCounter = [i \in Tasks |-> 0]
  /\ logBuffer = [i \in Tasks |-> <<>>]
  /\ pc = [i \in Tasks |-> "updateRunning"]
  /\ exec = [i \in Tasks |-> "none"]
  /\ sync = [i \in Tasks |-> "none"]
  /\ pendingRow = [i \in Tasks |-> NoRow]
  /\ err = [i \in Tasks |-> "none"]
  /\ termStatus = [i \in Tasks |-> "none"]
  /\ promise = [i \in Tasks |-> "pending"]
  /\ reason = [i \in Tasks |-> <<>>]
  /\ bodyPc = "await"
  /\ results = <<>>
  /\ delivered = [i \in Tasks |-> <<>>]
  /\ disposeCount = [i \in Tasks |-> 0]
  /\ cleanupDisposals = [i \in Tasks |-> 0]
  /\ firstFailed = 0
  /\ successBefore = {}
  /\ inFlight = {}
  /\ termWriteFailed = {}
  /\ faults = 0
  /\ invocation = 1
  /\ busyIpIds = <<>>
  /\ vmPc = [c \in Calls |-> "idle"]
  /\ vmIpBlockId = [c \in Calls |-> 0]
  /\ vmErr = [c \in Calls |-> <<>>]
  /\ vmTeardown = [c \in Calls |-> <<>>]
  /\ vmThrown = [c \in Calls |-> NoError]
  /\ storageLock = 0
  /\ storageRead = [c \in Calls |-> <<>>]
  /\ wsPc = [c \in Calls |-> "writeKeys"]
  /\ wsTaskPc = [c \in Calls |-> [t \in Tasks |-> "idle"]]
  /\ wsKeysWritten = [c \in Calls |-> FALSE]
  /\ wsLaunched = [c \in Calls |-> {}]
  /\ wsPids = [c \in Calls |-> {}]
  /\ wsNetwork = [c \in Calls |-> "private"]
  /\ gatewayKeys = {}
  /\ wsResult = [c \in Calls |-> 0]
  /\ wsStopped = [c \in Calls |-> FALSE]
  /\ coPc = [c \in Calls |-> "copyFile"]
  /\ coOutput = "absent"
  /\ frPc = [c \in Calls |-> "start"]
  /\ frSshKey = "unset"
  /\ frOutputDriveExists = [c \in Calls |-> FALSE]
  /\ frRepositoryExists = [c \in Calls |-> FALSE]
  /\ frDrive = FALSE
  /\ frChowned = FALSE
  /\ frGit = "absent"
  /\ frOps = [c \in Calls |-> <<>>]
  /\ pbPc = "lookup"
  /\ pbEvent = "unread"

\* ---- helpers -------------------------------------------------------------
\* a database or SSH operation rejects
InjectFault == faults < MaxFaults /\ faults' = faults + 1

Registered == {taskSshHandles[k] : k \in DOMAIN taskSshHandles}

Settled(st) == st \notin {"none", "running", "sleep", "create"}

TotalDelivered == LET RECURSIVE Sum(_)
                      Sum(n) == IF n = 0 THEN 0 ELSE Len(delivered[n]) + Sum(n - 1)
                  IN Sum(NumTasks)

\* NodeSSH.dispose() on the handles of the tasks in S: the channel is closed
\* and an exec in flight on it fails (spec 4.3); its .finally sets finished
\* (activities.ts line 380).
ExecAfterDispose(ex, S) ==
  [j \in Tasks |-> IF j \in S /\ ex[j] = "running" THEN "SshDisposed" ELSE ex[j]]

FinishedAfterDispose(fin, ex, S) ==
  [j \in Tasks |-> fin[j] \/ (j \in S /\ ex[j] = "running")]

CountAfterDispose(dc, S) ==
  [j \in Tasks |-> IF j \in S THEN dc[j] + 1 ELSE dc[j]]

\* ---- the catch block of taskPromises (lines 402-421) ----------------------
\* a catch that starts the cleanup on every failure
ShouldCleanupAlways == TRUE

\* line 406
ShouldCleanup == ~cleanupStarted

\* a snapshot that reads taskFinished as it was before the finally of line 403
SnapshotBeforeFinally(tf) == [j \in Tasks |-> ~taskFinished[j]]

\* lines 408-410
Snapshot(tf) == [j \in Tasks |-> ~tf[j]]

\* a cleanup that only marks the tasks and disposes nothing
HandlesToDisposeNone == {}

\* line 413: the handles the cleanup disposes
HandlesToDispose == Registered

\* a handler that leaves a cancelled task RUNNING
TerminalStatusKeepsRunning(cancelled) ==
  IF cancelled THEN VM_TASK_STATUS_RUNNING ELSE VM_TASK_STATUS_ERROR

\* lines 418-420
TerminalStatus(cancelled) ==
  IF cancelled THEN VM_TASK_STATUS_CANCELLED ELSE VM_TASK_STATUS_ERROR

\* The flow of task i throws e out of the inner try: the finally of line 403
\* runs, then the catch of line 405 up to its first await.  dc, ex, fin are
\* disposeCount, exec, finished as the throwing step left them.
Catch(i, e, dc, ex, fin) ==
  LET tf == [taskFinished EXCEPT ![i] = TRUE] IN
  /\ taskFinished' = tf
  /\ err' = [err EXCEPT ![i] = e]
  /\ firstFailed' = IF firstFailed = 0 THEN i ELSE firstFailed
  /\ successBefore' = IF firstFailed = 0
                      THEN {j \in Tasks : dbStatus[j] = VM_TASK_STATUS_SUCCESS}
                      ELSE successBefore
  /\ inFlight' = IF firstFailed = 0 THEN {j \in Tasks : ex[j] = "running"} ELSE inFlight
  /\ IF ShouldCleanup
     THEN /\ cleanupStarted' = TRUE
          /\ taskCancelled' = Snapshot(tf)
          /\ disposeCount' = CountAfterDispose(dc, HandlesToDispose)
          /\ cleanupDisposals' = CountAfterDispose(cleanupDisposals, HandlesToDispose)
          /\ exec' = ExecAfterDispose(ex, HandlesToDispose)
          /\ finished' = FinishedAfterDispose(fin, ex, HandlesToDispose)
          /\ pc' = [pc EXCEPT ![i] = "cleanup"]
          /\ termStatus' = termStatus
     ELSE /\ pc' = [pc EXCEPT ![i] = "updateTerminal"]
          /\ termStatus' = [termStatus EXCEPT ![i] = TerminalStatus(taskCancelled[i])]
          /\ disposeCount' = dc
          /\ exec' = ex
          /\ finished' = fin
          /\ UNCHANGED <<cleanupStarted, taskCancelled, cleanupDisposals>>

catchRest == <<dbStatus, statusLog, dbLog, taskSshHandles, syncCounter, logBuffer,
               sync, pendingRow, promise, reason, bodyPc, results, delivered,
               termWriteFailed, vmVars, invocation>>

\* db.vmTask.update({ data: { status } }) that succeeds (lines 391-395)
Persist(i, status) ==
  /\ dbStatus' = [dbStatus EXCEPT ![i] = status]
  /\ statusLog' = [statusLog EXCEPT ![i] = Append(@, status)]

\* ---- taskPromises[i] (lines 390-428) --------------------------------------
\* line 399: await updateStatus(RUNNING)
UpdateRunning(i) ==
  /\ pc[i] = "updateRunning"
  /\ \/ /\ Persist(i, VM_TASK_STATUS_RUNNING)
        /\ pc' = [pc EXCEPT ![i] = "mkdir"]
        /\ UNCHANGED <<dbLog, cleanupStarted, taskSshHandles, taskFinished, taskCancelled,
                       finished, syncCounter, logBuffer, exec, sync, pendingRow, err,
                       termStatus, promise, reason, bodyPc, results, delivered,
                       disposeCount, cleanupDisposals, firstFailed, successBefore,
                       inFlight, termWriteFailed, faults, vmVars, invocation>>
     \/ /\ InjectFault
        /\ Catch(i, "UpdateRunningFailed", disposeCount, exec, finished)
        /\ UNCHANGED catchRest

\* line 323: await execSshCmd({ ssh }, ["mkdir", "-p", prebuildScriptsDir])
Mkdir(i) ==
  /\ pc[i] = "mkdir"
  /\ \/ /\ pc' = [pc EXCEPT ![i] = "writeFile"]
        /\ UNCHANGED <<dbStatus, statusLog, dbLog, cleanupStarted, taskSshHandles,
                       taskFinished, taskCancelled, finished, syncCounter, logBuffer,
                       exec, sync, pendingRow, err, termStatus, promise, reason,
                       bodyPc, results, delivered, disposeCount, cleanupDisposals,
                       firstFailed, successBefore, inFlight, termWriteFailed, faults, vmVars, invocation>>
     \/ /\ InjectFault
        /\ Catch(i, "MkdirFailed", disposeCount, exec, finished)
        /\ UNCHANGED catchRest

\* line 324: await agentUtilService.writeFile(ssh, scriptPath, script)
WriteFile(i) ==
  /\ pc[i] = "writeFile"
  /\ \/ /\ pc' = [pc EXCEPT ![i] = "withSsh"]
        /\ UNCHANGED <<dbStatus, statusLog, dbLog, cleanupStarted, taskSshHandles,
                       taskFinished, taskCancelled, finished, syncCounter, logBuffer,
                       exec, sync, pendingRow, err, termStatus, promise, reason,
                       bodyPc, results, delivered, disposeCount, cleanupDisposals,
                       firstFailed, successBefore, inFlight, termWriteFailed, faults, vmVars, invocation>>
     \/ /\ InjectFault
        /\ Catch(i, "WriteFileFailed", disposeCount, exec, finished)
        /\ UNCHANGED catchRest

\* a body that registers its handle whatever cleanupStarted is
CleanupAlreadyStartedIgnored == FALSE

\* line 327: the test at the top of the withSsh body
CleanupAlreadyStarted == cleanupStarted

\* lines 326-385: withSsh connects and enters its body, which runs without
\* suspension up to waitForPromises: the cleanupStarted test, the push of the
\* handle, the start of the exec and the first loop test of syncLogs.
WithSsh(i) ==
  /\ pc[i] = "withSsh"
  /\ \/ /\ ~CleanupAlreadyStarted
        /\ taskSshHandles' = Append(taskSshHandles, i)
        /\ exec' = [exec EXCEPT ![i] = "running"]
        /\ sync' = [sync EXCEPT ![i] = "sleep"]
        /\ pc' = [pc EXCEPT ![i] = "waitForPromises"]
        /\ UNCHANGED <<dbStatus, statusLog, dbLog, cleanupStarted, taskFinished,
                       taskCancelled, finished, syncCounter, logBuffer, pendingRow,
                       err, termStatus, promise, reason, bodyPc, results, delivered,
                       disposeCount, cleanupDisposals, firstFailed, successBefore,
                       inFlight, termWriteFailed, faults, vmVars, invocation>>
     \/ /\ CleanupAlreadyStarted
        \* line 328 throws; withSsh disposes the session it opened
        /\ Catch(i, "CleanupAlreadyStarted", CountAfterDispose(disposeCount, {i}),
                 exec, finished)
        /\ UNCHANGED <<catchRest, faults>>
     \/ \* the connection itself fails: there is no session to dispose
        /\ InjectFault
        /\ Catch(i, "SshConnectFailed", disposeCount, exec, finished)
        /\ UNCHANGED catchRest

\* ---- execSshCmd on taskSsh (lines 362-380) --------------------------------
\* lines 367-368: onStdout / onStderr push the chunk
ExecChunk(i) ==
  /\ exec[i] = "running"
  /\ TotalDelivered < MaxChunks
  /\ LET chunk == Len(delivered[i]) + 1 IN
     /\ logBuffer' = [logBuffer EXCEPT ![i] = Append(@, chunk)]
     /\ delivered' = [delivered EXCEPT ![i] = Append(@, chunk)]
  /\ UNCHANGED <<dbStatus, statusLog, dbLog, cleanupStarted, taskSshHandles,
                 taskFinished, taskCancelled, finished, syncCounter, pc, exec, sync,
                 pendingRow, err, termStatus, promise, reason, bodyPc, results,
                 disposeCount, cleanupDisposals, firstFailed, successBefore, inFlight,
                 termWriteFailed, faults, vmVars, invocation>>

\* the command exits (code 0, or non-zero: SshExecFailed); line 380 sets finished
ExecExit(i) ==
  /\ exec[i] = "running"
  /\ \E outcome \in {"ok", "SshExecFailed"} : exec' = [exec EXCEPT ![i] = outcome]
  /\ finished' = [finished EXCEPT ![i] = TRUE]
  /\ UNCHANGED <<dbStatus, statusLog, dbLog, cleanupStarted, taskSshHandles,
                 taskFinished, taskCancelled, syncCounter, logBuffer, pc, sync,
                 pendingRow, err, termStatus, promise, reason, bodyPc, results,
                 delivered, disposeCount, cleanupDisposals, firstFailed, successBefore,
                 inFlight, termWriteFailed, faults, vmVars, invocation>>

\* ---- syncLogs (lines 335-359) and its catch (lines 381-384) ---------------
\* a flush that reuses the index
NextSyncCounterStuck(c) == c

\* line 347
NextSyncCounter(c) == c + 1

\* a flush that leaves the flushed chunks in the buffer
FlushedBufferKept(buf) == buf

\* line 350: logBuffer = [], in the same synchronous stretch as the
\* Buffer.concat(logBuffer) of line 349
FlushedBuffer(buf) == <<>>

\* line 337: the loop test, reached by `continue` and after db.log.create
LoopTest(fin) == IF fin THEN "done" ELSE "sleep"

\* a catch that rethrows without disposing taskSsh
SyncLogsCatchNoDispose(i, e) ==
  /\ sync' = [sync EXCEPT ![i] = e]
  /\ UNCHANGED <<disposeCount, exec, finished>>

\* lines 381-384: syncLogs failed with e; its catch disposes taskSsh
SyncLogsCatch(i, e) ==
  /\ sync' = [sync EXCEPT ![i] = e]
  /\ disposeCount' = CountAfterDispose(disposeCount, {i})
  /\ exec' = ExecAfterDispose(exec, {i})
  /\ finished' = FinishedAfterDispose(finished, exec, {i})

\* lines 338-350: the sleep returns; up to the await of db.log.create
SyncWake(i) ==
  /\ sync[i] = "sleep"
  /\ IF cleanupStarted
     THEN /\ SyncLogsCatch(i, "CleanupStarted")
          /\ UNCHANGED <<syncCounter, logBuffer, pendingRow>>
     ELSE IF logBuffer[i] = <<>>
     THEN /\ sync' = [sync EXCEPT ![i] = LoopTest(finished[i])]
          /\ UNCHANGED <<syncCounter, logBuffer, pendingRow, disposeCount, exec, finished>>
     ELSE /\ pendingRow' = [pendingRow EXCEPT
                              ![i] = [idx |-> syncCounter[i], content |-> logBuffer[i]]]
          /\ syncCounter' = [syncCounter EXCEPT ![i] = NextSyncCounter(@)]
          /\ logBuffer' = [logBuffer EXCEPT ![i] = FlushedBuffer(@)]
          /\ sync' = [sync EXCEPT ![i] = "create"]
          /\ UNCHANGED <<disposeCount, exec, finished>>
  /\ UNCHANGED <<dbStatus, statusLog, dbLog, cleanupStarted, taskSshHandles,
                 taskFinished, taskCancelled, pc, err, termStatus, promise, reason,
                 bodyPc, results, delivered, cleanupDisposals, firstFailed,
                 successBefore, inFlight, termWriteFailed, faults, vmVars, invocation>>

\* lines 351-357: db.log.create settles
SyncCreate(i) ==
  /\ sync[i] = "create"
  /\ pendingRow' = [pendingRow EXCEPT ![i] = NoRow]
  /\ \/ /\ dbLog' = [dbLog EXCEPT ![i] = Append(@, pendingRow[i])]
        /\ sync' = [sync EXCEPT ![i] = LoopTest(finished[i])]
        /\ UNCHANGED <<disposeCount, exec, finished, faults>>
     \/ /\ InjectFault
        /\ SyncLogsCatch(i, "LogCreateFailed")
        /\ UNCHANGED dbLog
  /\ UNCHANGED <<dbStatus, statusLog, cleanupStarted, taskSshHandles, taskFinished,
                 taskCancelled, syncCounter, logBuffer, pc, err, termStatus, promise,
                 reason, bodyPc, results, delivered, cleanupDisposals, firstFailed,
                 successBefore, inFlight, termWriteFailed, vmVars, invocation>>

\* lines 361-386: waitForPromises (~/utils.shared) settles once the exec and
\* syncLogs both have, and rejects if either rejected; withSsh then disposes
\* the session and taskFn returns or throws.
WaitForPromises(i) ==
  /\ pc[i] = "waitForPromises"
  /\ Settled(exec[i]) /\ Settled(sync[i])
  /\ LET dc == CountAfterDispose(disposeCount, {i}) IN
     IF exec[i] = "ok" /\ sync[i] = "done"
     THEN /\ pc' = [pc EXCEPT ![i] = "updateSuccess"]
          /\ disposeCount' = dc
          /\ UNCHANGED <<dbStatus, statusLog, dbLog, cleanupStarted, taskSshHandles,
                         taskFinished, taskCancelled, finished, syncCounter, logBuffer,
                         exec, sync, pendingRow, err, termStatus, promise, reason,
                         bodyPc, results, delivered, cleanupDisposals, firstFailed,
                         successBefore, inFlight, termWriteFailed, faults, vmVars, invocation>>
     ELSE /\ Catch(i, IF exec[i] # "ok" THEN exec[i] ELSE sync[i], dc, exec, finished)
          /\ UNCHANGED <<catchRest, faults>>

\* line 401: await updateStatus(SUCCESS), then the finally of line 403
UpdateSuccess(i) ==
  /\ pc[i] = "updateSuccess"
  /\ \/ /\ Persist(i, VM_TASK_STATUS_SUCCESS)
        /\ taskFinished' = [taskFinished EXCEPT ![i] = TRUE]
        /\ promise' = [promise EXCEPT ![i] = "fulfilled"]
        /\ pc' = [pc EXCEPT ![i] = "done"]
        /\ UNCHANGED <<dbLog, cleanupStarted, taskSshHandles, taskCancelled, finished,
                       syncCounter, logBuffer, exec, sync, pendingRow, err, termStatus,
                       reason, bodyPc, results, delivered, disposeCount,
                       cleanupDisposals, firstFailed, successBefore, inFlight,
                       termWriteFailed, faults, vmVars, invocation>>
     \/ /\ InjectFault
        /\ Catch(i, "UpdateSuccessFailed", disposeCount, exec, finished)
        /\ UNCHANGED catchRest

\* line 413: await Promise.all(dispose) returns; lines 417-421 call updateStatus
CleanupDone(i) ==
  /\ pc[i] = "cleanup"
  /\ pc' = [pc EXCEPT ![i] = "updateTerminal"]
  /\ termStatus' = [termStatus EXCEPT ![i] = TerminalStatus(taskCancelled[i])]
  /\ UNCHANGED <<dbStatus, statusLog, dbLog, cleanupStarted, taskSshHandles,
                 taskFinished, taskCancelled, finished, syncCounter, logBuffer, exec,
                 sync, pendingRow, err, promise, reason, bodyPc, results, delivered,
                 disposeCount, cleanupDisposals, firstFailed, successBefore, inFlight,
                 termWriteFailed, faults, vmVars, invocation>>

\* lines 416-426: the ERROR/CANCELLED write settles; the flow rejects with err,
\* or with GroupError([err, updateErr])
UpdateTerminal(i) ==
  /\ pc[i] = "updateTerminal"
  /\ pc' = [pc EXCEPT ![i] = "done"]
  /\ promise' = [promise EXCEPT ![i] = "rejected"]
  /\ \/ /\ Persist(i, termStatus[i])
        /\ reason' = [reason EXCEPT ![i] = <<err[i]>>]
        /\ UNCHANGED <<termWriteFailed, faults>>
     \/ /\ InjectFault
        /\ reason' = [reason EXCEPT ![i] = <<err[i], "UpdateErr">>]
        /\ termWriteFailed' = termWriteFailed \cup {i}
        /\ UNCHANGED <<dbStatus, statusLog>>
  /\ UNCHANGED <<dbLog, cleanupStarted, taskSshHandles, taskFinished, taskCancelled,
                 finished, syncCounter, logBuffer, exec, sync, pendingRow, err,
                 termStatus, bodyPc, results, delivered, disposeCount,
                 cleanupDisposals, firstFailed, successBefore, inFlight, vmVars, invocation>>

\* ---- the supervisor (lines 429-446) ---------------------------------------
\* Promise.all instead: rejects as soon as one flow rejects
AllSettledAsPromiseAll ==
  IF \E i \in Tasks : promise[i] = "rejected" THEN "threw"
  ELSE IF \A i \in Tasks : promise[i] = "fulfilled" THEN "returned" ELSE "await"

\* line 429: Promise.allSettled never rejects; it resolves when every flow settled
AllSettled ==
  IF \A i \in Tasks : promise[i] # "pending" THEN "returned" ELSE "await"

\* lines 430-445
ParsedResult(i) ==
  IF promise[i] = "rejected"
  THEN IF taskCancelled[i]
       THEN [status |-> VM_TASK_STATUS_CANCELLED, error |-> <<>>]
       ELSE [status |-> VM_TASK_STATUS_ERROR, error |-> reason[i]]
  ELSE [status |-> VM_TASK_STATUS_SUCCESS, error |-> <<>>]

Return ==
  /\ bodyPc = "await"
  /\ AllSettled # "await"
  /\ bodyPc' = AllSettled
  /\ results' = IF AllSettled = "returned"
                THEN [i \in 1..NumTasks |-> ParsedResult(i)]
                ELSE <<>>
  /\ UNCHANGED <<dbStatus, statusLog, dbLog, cleanupStarted, taskSshHandles,
                 taskFinished, taskCancelled, finished, syncCounter, logBuffer, pc,
                 exec, sync, pendingRow, err, termStatus, promise, reason, delivered,
                 disposeCount, cleanupDisposals, firstFailed, successBefore, inFlight,
                 termWriteFailed, faults, vmVars, invocation>>

Next ==
  \/ \E i \in Tasks : UpdateRunning(i)
  \/ \E i \in Tasks : Mkdir(i)
  \/ \E i \in Tasks : WriteFile(i)
  \/ \E i \in Tasks : WithSsh(i)
  \/ \E i \in Tasks : ExecChunk(i)
  \/ \E i \in Tasks : ExecExit(i)
  \/ \E i \in Tasks : SyncWake(i)
  \/ \E i \in Tasks : SyncCreate(i)
  \/ \E i \in Tasks : WaitForPromises(i)
  \/ \E i \in Tasks : UpdateSuccess(i)
  \/ \E i \in Tasks : CleanupDone(i)
  \/ \E i \in Tasks : UpdateTerminal(i)
  \/ Return

Spec == Init /\ [][Next]_vars

\* lines 286-305: the workflow engine invokes prebuild again for the same
\* prebuildEventId once the earlier invocation has ended: the tasks are loaded
\* again (line 300) and the body starts with a fresh closure; the database
\* keeps what the earlier invocations persisted
Retry ==
  /\ bodyPc # "await"
  /\ invocation < MaxInvocations
  /\ invocation' = invocation + 1
  /\ cleanupStarted' = FALSE
  /\ taskSshHandles' = <<>>
  /\ taskFinished' = [i \in Tasks |-> FALSE]
  /\ taskCancelled' = [i \in Tasks |-> FALSE]
  /\ finished' = [i \in Tasks |-> FALSE]
  /\ syncCounter' = [i \in Tasks |-> 0]
  /\ logBuffer' = [i \in Tasks |-> <<>>]
  /\ pc' = [i \in Tasks |-> "updateRunning"]
  /\ exec' = [i \in Tasks |-> "none"]
  /\ sync' = [i \in Tasks |-> "none"]
  /\ pendingRow' = [i \in Tasks |-> NoRow]
  /\ err' = [i \in Tasks |-> "none"]
  /\ termStatus' = [i \in Tasks |-> "none"]
  /\ promise' = [i \in Tasks |-> "pending"]
  /\ reason' = [i \in Tasks |-> <<>>]
  /\ bodyPc' = "await"
  /\ results' = <<>>
  /\ disposeCount' = [i \in Tasks |-> 0]
  /\ cleanupDisposals' = [i \in Tasks |-> 0]
  /\ firstFailed' = 0
  /\ successBefore' = {}
  /\ inFlight' = {}
  /\ termWriteFailed' = {}
  /\ UNCHANGED <<dbStatus, statusLog, dbLog, delivered, faults, vmVars>>

NextRetry ==
  \/ Next
  \/ Retry

SpecRetry == Init /\ [][NextRetry]_vars

\* Every step of the flow of task i other than the progress of its command:
\* database writes, SSH operations on the supervisor session, timers and
\* dispose() complete, so a flow that can continue eventually does.
FlowStep(i) ==
  \/ UpdateRunning(i) \/ Mkdir(i) \/ WriteFile(i) \/ WithSsh(i)
  \/ SyncWake(i) \/ SyncCreate(i) \/ WaitForPromises(i)
  \/ UpdateSuccess(i) \/ CleanupDone(i) \/ UpdateTerminal(i)

\* The command of a task may run forever: no fairness on ExecChunk, ExecExit.
LiveSpec ==
  /\ Init /\ [][Next]_vars
  /\ \A i \in Tasks : WF_vars(FlowStep(i))
  /\ WF_vars(Return)

\* ---- withVM (spec 4.2) and the activities that open it ---------------------
\* a call site that opts out of the teardown, as startWorkspace does (line 484)
PrebuildVMConfigNoPoweroff == [shouldPoweroff |-> "false"]

\* lines 306-314: the config prebuild hands to withVM leaves shouldPoweroff unset
PrebuildVMConfig == [shouldPoweroff |-> "unset"]

\* withVM runs the teardown on every exit path unless config.shouldPoweroff
\* === false and the body returned successfully
RunsTeardown(config, bodyOk) == ~(config.shouldPoweroff = "false" /\ bodyOk)

\* an allocator that does not serialize its critical section
StorageLockFreeAlways == TRUE

\* the allocator serializes its mutate+persist critical section
StorageLockFree == storageLock = 0

\* an allocate() that hands out ids whether or not they are busy
FreeIpIdsIgnoringBusy(busy) == MINIMUM_IP_ID..MAXIMUM_IP_ID

\* allocate(): the ids of [MINIMUM_IP_ID, MAXIMUM_IP_ID] not in the busy list
FreeIpIds(busy) ==
  {id \in MINIMUM_IP_ID..MAXIMUM_IP_ID : \A k \in DOMAIN busy : busy[k] # id}

\* release(id)
ReleaseIpId(busy, id) == SelectSeq(busy, LAMBDA x : x # id)

\* shutdownVMAndReleaseResources: the steps before the release of the IP block
NextTeardownStep(step) ==
  CASE step = "shutdown" -> "kill"
    [] step = "kill" -> "removeTap"
    [] step = "removeTap" -> "deleteSocket"
    [] step = "deleteSocket" -> "release"

TeardownSteps == {"shutdown", "kill", "removeTap", "deleteSocket"}

\* the activity is invoked and opens its withVM scope (line 305)
OpenWithVM(c) ==
  /\ vmPc[c] = "idle"
  /\ vmPc' = [vmPc EXCEPT ![c] = "allocate"]
  /\ UNCHANGED <<storageVars, vmIpBlockId, vmErr, vmTeardown, vmThrown, prebuildVars, pbVars, wsVars, fsVars>>

\* a withVM that throws the error of the body alone
ThrownErrorBodyOnly(errs) ==
  IF errs = <<>> THEN NoError ELSE [kind |-> "direct", causes |-> <<errs[1]>>]

\* errors of the body propagate after the teardown; the teardown's error is
\* attached as a composite if the body also failed, else re-thrown directly
ThrownError(errs) ==
  LET body == SelectSeq(errs, LAMBDA e : e # "TeardownFailed")
      teardown == SelectSeq(errs, LAMBDA e : e = "TeardownFailed")
  IN  IF errs = <<>> THEN NoError
      ELSE IF teardown = <<>> THEN [kind |-> "direct", causes |-> <<body[1]>>]
      ELSE IF body = <<>> THEN [kind |-> "direct", causes |-> <<teardown[1]>>]
      ELSE [kind |-> "composite", causes |-> <<body[1], teardown[1]>>]

\* allocate() and release(id) enter the critical section and read the
\* persisted busy list
LockStorage(c) ==
  /\ vmPc[c] \in {"allocate", "release"}
  /\ StorageLockFree
  /\ storageLock' = c
  /\ storageRead' = [storageRead EXCEPT ![c] = busyIpIds]
  /\ vmPc' = [vmPc EXCEPT ![c] = IF @ = "allocate" THEN "allocating" ELSE "releasing"]
  /\ UNCHANGED <<busyIpIds, vmIpBlockId, vmErr, vmTeardown, vmThrown, prebuildVars, pbVars, wsVars, fsVars>>

\* withVM allocates an IP block: allocate() adds a free id to the list it read
\* and persists it, or fails with NoFreeIpBlock; the critical section is left
AllocateIp(c) ==
  /\ vmPc[c] = "allocating"
  /\ IF FreeIpIds(storageRead[c]) # {}
     THEN /\ \E id \in FreeIpIds(storageRead[c]) :
               /\ busyIpIds' = Append(storageRead[c], id)
               /\ vmIpBlockId' = [vmIpBlockId EXCEPT ![c] = id]
          /\ vmPc' = [vmPc EXCEPT ![c] = "startVM"]
          /\ UNCHANGED <<vmErr, vmThrown>>
     ELSE /\ vmErr' = [vmErr EXCEPT ![c] = <<"NoFreeIpBlock">>]
          /\ vmThrown' = [vmThrown EXCEPT ![c] = ThrownError(<<"NoFreeIpBlock">>)]
          /\ vmPc' = [vmPc EXCEPT ![c] = "threw"]
          /\ UNCHANGED <<busyIpIds, vmIpBlockId>>
  /\ storageLock' = 0
  /\ storageRead' = [storageRead EXCEPT ![c] = <<>>]
  /\ UNCHANGED <<vmTeardown, prebuildVars, pbVars, wsVars, fsVars>>

\* startVM spawns and configures the VMM
StartVM(c) ==
  /\ vmPc[c] = "startVM"
  /\ \/ /\ vmPc' = [vmPc EXCEPT ![c] = "waitSsh"]
        /\ UNCHANGED vmErr
     \/ /\ vmErr' = [vmErr EXCEPT ![c] = Append(@, "StartVMFailed")]
        /\ vmPc' = [vmPc EXCEPT ![c] = "shutdown"]
  /\ UNCHANGED <<storageVars, vmIpBlockId, vmTeardown, vmThrown, prebuildVars, pbVars, wsVars, fsVars>>

\* startVM waits until SSH on the VM answers, or fails with VmBootTimeout
WaitSsh(c) ==
  /\ vmPc[c] = "waitSsh"
  /\ \/ /\ vmPc' = [vmPc EXCEPT ![c] = "body"]
        /\ UNCHANGED vmErr
     \/ /\ vmErr' = [vmErr EXCEPT ![c] = Append(@, "VmBootTimeout")]
        /\ vmPc' = [vmPc EXCEPT ![c] = "shutdown"]
  /\ UNCHANGED <<storageVars, vmIpBlockId, vmTeardown, vmThrown, prebuildVars, pbVars, wsVars, fsVars>>

\* the body handed to withVM returns or throws
Body(c) ==
  /\ vmPc[c] = "body"
  /\ \E bodyOk \in BOOLEAN :
       /\ vmErr' = [vmErr EXCEPT ![c] = IF bodyOk THEN @ ELSE Append(@, "BodyFailed")]
       /\ vmPc' = [vmPc EXCEPT ![c] = IF RunsTeardown(PrebuildVMConfig, bodyOk)
                                       THEN "shutdown" ELSE "returned"]
  /\ UNCHANGED <<storageVars, vmIpBlockId, vmTeardown, vmThrown, prebuildVars, pbVars, wsVars, fsVars>>

\* a teardown that gives up at its first failed step
AfterFailedTeardownStepAbort(step) == "threw"

\* a failure in one teardown step must not prevent the subsequent steps
AfterFailedTeardownStep(step) == NextTeardownStep(step)

\* one step of the teardown: its failure is recorded and the next step runs
TeardownStep(c) ==
  /\ vmPc[c] \in TeardownSteps
  /\ \/ /\ UNCHANGED vmErr
        /\ vmPc' = [vmPc EXCEPT ![c] = NextTeardownStep(@)]
     \/ /\ vmErr' = [vmErr EXCEPT ![c] = Append(@, "TeardownFailed")]
        /\ vmPc' = [vmPc EXCEPT ![c] = AfterFailedTeardownStep(@)]
  /\ vmTeardown' = [vmTeardown EXCEPT ![c] = Append(@, vmPc[c])]
  /\ UNCHANGED <<storageVars, vmIpBlockId, vmThrown, prebuildVars, pbVars, wsVars, fsVars>>

\* the teardown releases the IP block; withVM returns, or throws what it collected
ReleaseIp(c) ==
  /\ vmPc[c] = "releasing"
  /\ busyIpIds' = ReleaseIpId(storageRead[c], vmIpBlockId[c])
  /\ storageLock' = 0
  /\ storageRead' = [storageRead EXCEPT ![c] = <<>>]
  /\ vmIpBlockId' = [vmIpBlockId EXCEPT ![c] = 0]
  /\ vmPc' = [vmPc EXCEPT ![c] = IF vmErr[c] = <<>> THEN "returned" ELSE "threw"]
  /\ vmTeardown' = [vmTeardown EXCEPT ![c] = Append(@, "release")]
  /\ vmThrown' = [vmThrown EXCEPT ![c] = ThrownError(vmErr[c])]
  /\ UNCHANGED <<vmErr, prebuildVars, pbVars, wsVars, fsVars>>

NextVM ==
  \/ \E c \in Calls : OpenWithVM(c)
  \/ \E c \in Calls : LockStorage(c)
  \/ \E c \in Calls : AllocateIp(c)
  \/ \E c \in Calls : StartVM(c)
  \/ \E c \in Calls : WaitSsh(c)
  \/ \E c \in Calls : Body(c)
  \/ \E c \in Calls : TeardownStep(c)
  \/ \E c \in Calls : ReleaseIp(c)

SpecVM == Init /\ [][NextVM]_vars

\* ---- startWorkspace / stopWorkspace (lines 459-528) --------------------------
\* a call site that leaves shouldPoweroff unset, as prebuild does
StartWorkspaceVMConfigPoweroff == [shouldPoweroff |-> "unset"]

\* lines 476-485: startWorkspace hands shouldPoweroff: false to withVM
StartWorkspaceVMConfig == [shouldPoweroff |-> "false"]

\* the errors the body of lines 486-521 can throw
WsBodyErrors == {"WriteKeysFailed", "TaskFailed", "NetworkFailed", "GatewayFailed"}

\* the guest still answers SSH commands: its resources were not released yet
WsReachable(c) == vmIpBlockId[c] # 0

\* the body throws e into withVM
WsBodyThrows(c, e) ==
  /\ wsPc' = [wsPc EXCEPT ![c] = "threw"]
  /\ vmErr' = [vmErr EXCEPT ![c] = Append(@, e)]
  /\ vmPc' = [vmPc EXCEPT ![c] = IF RunsTeardown(StartWorkspaceVMConfig, FALSE)
                                  THEN "shutdown" ELSE "returned"]

\* lines 514-520: the body returns ipBlockId (and the PIDs) through withVM
WsBodyReturns(c) ==
  /\ wsPc' = [wsPc EXCEPT ![c] = "returned"]
  /\ wsResult' = [wsResult EXCEPT ![c] = vmIpBlockId[c]]
  /\ vmPc' = [vmPc EXCEPT ![c] = IF RunsTeardown(StartWorkspaceVMConfig, TRUE)
                                  THEN "shutdown" ELSE "returned"]

\* lines 505-511: authorized_keys is written, then every taskFn is started and
\* runs up to its first await (the mkdir of line 491)
WsWriteKeys(c) ==
  /\ vmPc[c] = "body"
  /\ wsPc[c] = "writeKeys"
  /\ \/ /\ wsKeysWritten' = [wsKeysWritten EXCEPT ![c] = TRUE]
        /\ wsPc' = [wsPc EXCEPT ![c] = "tasks"]
        /\ wsTaskPc' = [wsTaskPc EXCEPT ![c] = [t \in Tasks |-> "mkdir"]]
        /\ UNCHANGED <<vmErr, vmPc>>
     \/ /\ WsBodyThrows(c, "WriteKeysFailed")
        /\ UNCHANGED <<wsKeysWritten, wsTaskPc>>
  /\ UNCHANGED <<storageVars, vmIpBlockId, vmTeardown, vmThrown, prebuildVars, pbVars, fsVars, wsLaunched, wsPids,
                 wsNetwork, gatewayKeys, wsResult, wsStopped>>

\* taskFn rejects: Promise.all (line 511) rejects with the first rejection, the
\* later ones are dropped; the other taskFns are not stopped
WsTaskRejects(c, t) ==
  /\ wsTaskPc' = [wsTaskPc EXCEPT ![c][t] = "failed"]
  /\ IF wsPc[c] = "tasks"
     THEN WsBodyThrows(c, "TaskFailed")
     ELSE UNCHANGED <<wsPc, vmErr, vmPc>>

\* line 491: mkdir -p scriptsDir
WsMkdir(c, t) ==
  /\ wsTaskPc[c][t] = "mkdir"
  /\ \/ /\ WsReachable(c)
        /\ wsTaskPc' = [wsTaskPc EXCEPT ![c][t] = "writeFile"]
        /\ UNCHANGED <<wsPc, vmErr, vmPc>>
     \/ WsTaskRejects(c, t)
  /\ UNCHANGED <<storageVars, vmIpBlockId, vmTeardown, vmThrown, prebuildVars, pbVars, fsVars, wsKeysWritten,
                 wsLaunched, wsPids, wsNetwork, gatewayKeys, wsResult, wsStopped>>

\* line 492: the task's script is uploaded
WsWriteScript(c, t) ==
  /\ wsTaskPc[c][t] = "writeFile"
  /\ \/ /\ WsReachable(c)
        /\ wsTaskPc' = [wsTaskPc EXCEPT ![c][t] = "exec"]
        /\ UNCHANGED <<wsPc, vmErr, vmPc>>
     \/ WsTaskRejects(c, t)
  /\ UNCHANGED <<storageVars, vmIpBlockId, vmTeardown, vmThrown, prebuildVars, pbVars, fsVars, wsKeysWritten,
                 wsLaunched, wsPids, wsNetwork, gatewayKeys, wsResult, wsStopped>>

\* a combinator that fulfils with the first taskFn that fulfils
WsAnyFulfilled(c, t) == TRUE

\* line 511: Promise.all fulfils once every taskFn has fulfilled
WsAllFulfilled(c, t) == \A u \in Tasks \ {t} : wsTaskPc[c][u] = "done"

\* lines 494-503: the script is started in the background, its PID is read from
\* stdout and validated
WsExec(c, t) ==
  /\ wsTaskPc[c][t] = "exec"
  /\ \/ /\ WsReachable(c)
        /\ wsLaunched' = [wsLaunched EXCEPT ![c] = @ \cup {t}]
        /\ \/ /\ wsPids' = [wsPids EXCEPT ![c] = @ \cup {t}]
              /\ wsTaskPc' = [wsTaskPc EXCEPT ![c][t] = "done"]
              /\ wsPc' = [wsPc EXCEPT ![c] = IF @ = "tasks" /\ WsAllFulfilled(c, t)
                                              THEN "network" ELSE @]
              /\ UNCHANGED <<vmErr, vmPc>>
           \/ /\ WsTaskRejects(c, t)
              /\ UNCHANGED wsPids
     \/ /\ WsTaskRejects(c, t)
        /\ UNCHANGED <<wsLaunched, wsPids>>
  /\ UNCHANGED <<storageVars, vmIpBlockId, vmTeardown, vmThrown, prebuildVars, pbVars, fsVars, wsKeysWritten,
                 wsNetwork, gatewayKeys, wsResult, wsStopped>>

\* line 512: changeVMNetworkVisibility(ipBlockId, "public")
WsNetwork(c) ==
  /\ vmPc[c] = "body"
  /\ wsPc[c] = "network"
  /\ \/ /\ wsNetwork' = [wsNetwork EXCEPT ![c] = "public"]
        /\ wsPc' = [wsPc EXCEPT ![c] = "gateway"]
        /\ UNCHANGED <<vmErr, vmPc>>
     \/ /\ WsBodyThrows(c, "NetworkFailed")
        /\ UNCHANGED wsNetwork
  /\ UNCHANGED <<storageVars, vmIpBlockId, vmTeardown, vmThrown, prebuildVars, pbVars, fsVars, wsTaskPc,
                 wsKeysWritten, wsLaunched, wsPids, gatewayKeys, wsResult, wsStopped>>

\* lines 513-520: the keys are registered with the SSH gateway, the body returns
WsGateway(c) ==
  /\ vmPc[c] = "body"
  /\ wsPc[c] = "gateway"
  /\ \/ /\ gatewayKeys' = gatewayKeys \cup {c}
        /\ WsBodyReturns(c)
        /\ UNCHANGED vmErr
     \/ /\ WsBodyThrows(c, "GatewayFailed")
        /\ UNCHANGED <<gatewayKeys, wsResult>>
  /\ UNCHANGED <<storageVars, vmIpBlockId, vmTeardown, vmThrown, prebuildVars, pbVars, fsVars, wsTaskPc,
                 wsKeysWritten, wsLaunched, wsPids, wsNetwork, wsStopped>>

\* lines 525-528: stopWorkspace with the value startWorkspace returned starts
\* shutdownVMAndReleaseResources(args.ipBlockId)
StopWorkspace(c) ==
  /\ vmPc[c] = "returned"
  /\ wsResult[c] # 0
  /\ ~wsStopped[c]
  /\ wsStopped' = [wsStopped EXCEPT ![c] = TRUE]
  /\ vmPc' = [vmPc EXCEPT ![c] = "shutdown"]
  /\ UNCHANGED <<storageVars, vmIpBlockId, vmErr, vmTeardown, vmThrown, prebuildVars, pbVars, fsVars, wsPc,
                 wsTaskPc, wsKeysWritten, wsLaunched, wsPids, wsNetwork,
                 gatewayKeys, wsResult>>

NextWorkspace ==
  \/ \E c \in Workspaces : OpenWithVM(c)
  \/ \E c \in Workspaces : LockStorage(c)
  \/ \E c \in Workspaces : AllocateIp(c)
  \/ \E c \in Workspaces : StartVM(c)
  \/ \E c \in Workspaces : WaitSsh(c)
  \/ \E c \in Workspaces : WsWriteKeys(c)
  \/ \E c \in Workspaces, t \in Tasks : WsMkdir(c, t)
  \/ \E c \in Workspaces, t \in Tasks : WsWriteScript(c, t)
  \/ \E c \in Workspaces, t \in Tasks : WsExec(c, t)
  \/ \E c \in Workspaces : WsNetwork(c)
  \/ \E c \in Workspaces : WsGateway(c)
  \/ \E c \in Workspaces : TeardownStep(c)
  \/ \E c \in Workspaces : ReleaseIp(c)
  \/ \E c \in Workspaces : StopWorkspace(c)

SpecWorkspace == Init /\ [][NextWorkspace]_vars

\* ---- checkoutAndInspect (lines 214-263) --------------------------------------
\* lines 240-248: the config handed to withVM leaves shouldPoweroff unset
CheckoutVMConfig == [shouldPoweroff |-> "unset"]

\* line 237 sits before the try of line 239: a failed copy is thrown to the
\* caller as it is; the destination is untouched when the source could not be
\* read, and removed when the copy failed after the destination was opened
CopyFileFails(c) ==
  /\ coPc' = [coPc EXCEPT ![c] = "threw"]
  /\ coOutput' \in {coOutput, "absent"}

\* the invocations before c have returned or thrown
CoEarlierSettled(c) == \A d \in Calls : d < c => coPc[d] \in {"returned", "threw"}

\* lines 232-239: the source drive is copied over the output drive, then the
\* withVM scope is opened; an invocation starts once the earlier ones ended
CoCopyFile(c) ==
  /\ vmPc[c] = "idle"
  /\ coPc[c] = "copyFile"
  /\ CoEarlierSettled(c)
  /\ \/ /\ coOutput' = "copied"
        /\ coPc' = [coPc EXCEPT ![c] = "withVM"]
        /\ vmPc' = [vmPc EXCEPT ![c] = "allocate"]
     \/ /\ CopyFileFails(c)
        /\ UNCHANGED vmPc
  /\ UNCHANGED <<storageVars, vmIpBlockId, vmErr, vmTeardown, vmThrown, prebuildVars, pbVars, wsVars, frVars>>

\* lines 251-255: git checkout targetBranch on the mounted output drive
CoGitCheckout(c) ==
  /\ vmPc[c] = "body"
  /\ coPc[c] = "withVM"
  /\ \/ /\ coPc' = [coPc EXCEPT ![c] = "getConfig"]
        /\ coOutput' = IF coOutput = "absent" THEN coOutput ELSE "checkedOut"
        /\ UNCHANGED <<vmErr, vmPc>>
     \/ /\ vmErr' = [vmErr EXCEPT ![c] = Append(@, "GitCheckoutFailed")]
        /\ vmPc' = [vmPc EXCEPT ![c] = "shutdown"]
        /\ UNCHANGED <<coPc, coOutput>>
  /\ UNCHANGED <<storageVars, vmIpBlockId, vmTeardown, vmThrown, prebuildVars, pbVars, wsVars, frVars>>

\* line 256: the project config is read and validated, the body returns it
CoGetConfig(c) ==
  /\ vmPc[c] = "body"
  /\ coPc[c] = "getConfig"
  /\ \E ok \in BOOLEAN :
       /\ vmErr' = [vmErr EXCEPT ![c] = IF ok THEN @ ELSE Append(@, "GetConfigFailed")]
       /\ vmPc' = [vmPc EXCEPT ![c] = IF RunsTeardown(CheckoutVMConfig, ok)
                                       THEN "shutdown" ELSE "returned"]
  /\ coPc' = [coPc EXCEPT ![c] = "withVM"]
  /\ UNCHANGED <<storageVars, vmIpBlockId, vmTeardown, vmThrown, prebuildVars, pbVars, wsVars, frVars, coOutput>>

\* line 239: withVM returned, checkoutAndInspect returns its value
CoReturn(c) ==
  /\ vmPc[c] = "returned"
  /\ coPc[c] = "withVM"
  /\ coPc' = [coPc EXCEPT ![c] = "returned"]
  /\ UNCHANGED <<vmVarsOfScopes, prebuildVars, pbVars, wsVars, frVars, coOutput>>

\* line 258: withVM threw, the catch is entered
CoCatch(c) ==
  /\ vmPc[c] = "threw"
  /\ coPc[c] = "withVM"
  /\ coPc' = [coPc EXCEPT ![c] = "unlink"]
  /\ UNCHANGED <<vmVarsOfScopes, prebuildVars, pbVars, wsVars, frVars, coOutput>>

\* lines 259-260: the output drive is unlinked and the error rethrown; when the
\* unlink fails its error is thrown in place of the caught one
CoUnlink(c) ==
  /\ coPc[c] = "unlink"
  /\ \/ coOutput # "absent" /\ coOutput' = "absent"
     \/ UNCHANGED coOutput
  /\ coPc' = [coPc EXCEPT ![c] = "threw"]
  /\ UNCHANGED <<vmVarsOfScopes, prebuildVars, pbVars, wsVars, frVars>>

NextCheckout ==
  \/ \E c \in Calls : CoCopyFile(c)
  \/ \E c \in Calls : LockStorage(c)
  \/ \E c \in Calls : AllocateIp(c)
  \/ \E c \in Calls : StartVM(c)
  \/ \E c \in Calls : WaitSsh(c)
  \/ \E c \in Calls : CoGitCheckout(c)
  \/ \E c \in Calls : CoGetConfig(c)
  \/ \E c \in Calls : TeardownStep(c)
  \/ \E c \in Calls : ReleaseIp(c)
  \/ \E c \in Calls : CoReturn(c)
  \/ \E c \in Calls : CoCatch(c)
  \/ \E c \in Calls : CoUnlink(c)

SpecCheckout == Init /\ [][NextCheckout]_vars

\* ---- fetchRepository (lines 26-137) ------------------------------------------
\* lines 63-76: the config handed to withVM leaves shouldPoweroff unset
FetchVMConfig == [shouldPoweroff |-> "unset"]

\* the invocations before c have returned or thrown
FrEarlierSettled(c) == \A d \in Calls : d < c => frPc[d] \in {"returned", "threw"}

\* a test that never finds the repository
RepositoryExistsNever(git) == FALSE

\* lines 103-110: test -d project/.git exits with 0
RepositoryExists(git) == git = "present"

\* lines 85-101: the steps that install the SSH key run only when one is given
FrAfterChown(key) == IF key # "null" THEN "sshKey" ELSE "test"

\* the body throws e into withVM
FrBodyThrows(c, e) ==
  /\ vmErr' = [vmErr EXCEPT ![c] = Append(@, e)]
  /\ vmPc' = [vmPc EXCEPT ![c] = "shutdown"]
  /\ frPc' = [frPc EXCEPT ![c] = "withVM"]

\* lines 57-62: the output drive is created when it does not exist, then the
\* withVM scope is opened; an invocation starts once the earlier ones ended
FrStart(c) ==
  /\ vmPc[c] = "idle"
  /\ frPc[c] = "start"
  /\ FrEarlierSettled(c)
  /\ \E key \in (IF frSshKey = "unset" THEN {"given", "null"} ELSE {frSshKey}) :
       /\ frSshKey' = key
       /\ frOutputDriveExists' = [frOutputDriveExists EXCEPT ![c] = frDrive]
       /\ \/ /\ frDrive' = TRUE
             /\ frOps' = [frOps EXCEPT ![c] = IF frDrive THEN @ ELSE Append(@, "create")]
             /\ frPc' = [frPc EXCEPT ![c] = IF frDrive THEN FrAfterChown(key) ELSE "chown"]
             /\ vmPc' = [vmPc EXCEPT ![c] = "allocate"]
          \/ /\ ~frDrive
             /\ frDrive' \in BOOLEAN
             /\ frPc' = [frPc EXCEPT ![c] = "threw"]
             /\ UNCHANGED <<frOps, vmPc>>
  /\ UNCHANGED <<storageVars, vmIpBlockId, vmErr, vmTeardown, vmThrown, prebuildVars, pbVars, wsVars,
                 coVars, frRepositoryExists, frChowned, frGit>>

\* lines 81-83: chown -R hocus:hocus of the mount point, when the drive is new
FrChown(c) ==
  /\ vmPc[c] = "body"
  /\ frPc[c] = "chown"
  /\ \/ /\ frChowned' = TRUE
        /\ frOps' = [frOps EXCEPT ![c] = Append(@, "chown")]
        /\ frPc' = [frPc EXCEPT ![c] = FrAfterChown(frSshKey)]
        /\ UNCHANGED <<vmErr, vmPc>>
     \/ /\ FrBodyThrows(c, "ChownFailed")
        /\ UNCHANGED <<frChowned, frOps>>
  /\ UNCHANGED <<storageVars, vmIpBlockId, vmTeardown, vmThrown, prebuildVars, pbVars, wsVars, coVars,
                 frSshKey, frOutputDriveExists, frRepositoryExists, frDrive, frGit>>

\* lines 85-101: the private key is written to a tmpfs mounted on ~/.ssh
FrInstallSshKey(c) ==
  /\ vmPc[c] = "body"
  /\ frPc[c] = "sshKey"
  /\ \/ /\ frPc' = [frPc EXCEPT ![c] = "test"]
        /\ UNCHANGED <<vmErr, vmPc>>
     \/ FrBodyThrows(c, "SshKeyFailed")
  /\ UNCHANGED <<storageVars, vmIpBlockId, vmTeardown, vmThrown, prebuildVars, pbVars, wsVars, coVars,
                 frSshKey, frOutputDriveExists, frRepositoryExists, frDrive,
                 frChowned, frGit, frOps>>

\* lines 103-110: test -d project/.git, a non-zero exit code is allowed
FrTestRepository(c) ==
  /\ vmPc[c] = "body"
  /\ frPc[c] = "test"
  /\ \/ /\ frRepositoryExists' = [frRepositoryExists EXCEPT ![c] = RepositoryExists(frGit)]
        /\ frPc' = [frPc EXCEPT ![c] = IF RepositoryExists(frGit) THEN "fetch" ELSE "clone"]
        /\ UNCHANGED <<vmErr, vmPc>>
     \/ /\ FrBodyThrows(c, "SshExecFailed")
        /\ UNCHANGED frRepositoryExists
  /\ UNCHANGED <<storageVars, vmIpBlockId, vmTeardown, vmThrown, prebuildVars, pbVars, wsVars, coVars,
                 frSshKey, frOutputDriveExists, frDrive, frChowned, frGit, frOps>>

\* the body returns through withVM, which tears the VM down
FrBodyReturns(c) ==
  /\ frPc' = [frPc EXCEPT ![c] = "withVM"]
  /\ vmPc' = [vmPc EXCEPT ![c] = IF RunsTeardown(FetchVMConfig, TRUE)
                                  THEN "shutdown" ELSE "returned"]
  /\ UNCHANGED vmErr

\* lines 111-116: git fetch --all in project
FrGitFetch(c) ==
  /\ vmPc[c] = "body"
  /\ frPc[c] = "fetch"
  /\ \/ /\ frOps' = [frOps EXCEPT ![c] = Append(@, "fetch")]
        /\ FrBodyReturns(c)
     \/ /\ FrBodyThrows(c, "GitFetchFailed")
        /\ UNCHANGED frOps
  /\ UNCHANGED <<storageVars, vmIpBlockId, vmTeardown, vmThrown, prebuildVars, pbVars, wsVars, coVars,
                 frSshKey, frOutputDriveExists, frRepositoryExists, frDrive,
                 frChowned, frGit>>

\* lines 117-135: git clone --no-checkout url project; a failed clone may leave
\* the directory behind
FrGitClone(c) ==
  /\ vmPc[c] = "body"
  /\ frPc[c] = "clone"
  /\ \/ /\ frGit' = "present"
        /\ frOps' = [frOps EXCEPT ![c] = Append(@, "clone")]
        /\ FrBodyReturns(c)
     \/ /\ frGit' \in {"absent", "present"}
        /\ FrBodyThrows(c, "GitCloneFailed")
        /\ UNCHANGED frOps
  /\ UNCHANGED <<storageVars, vmIpBlockId, vmTeardown, vmThrown, prebuildVars, pbVars, wsVars, coVars,
                 frSshKey, frOutputDriveExists, frRepositoryExists, frDrive, frChowned>>

\* line 63: await withVM has settled, fetchRepository returns or throws
FrSettle(c) ==
  /\ vmPc[c] \in {"returned", "threw"}
  /\ frPc[c] = "withVM"
  /\ frPc' = [frPc EXCEPT ![c] = vmPc[c]]
  /\ UNCHANGED <<vmVarsOfScopes, prebuildVars, pbVars, wsVars, coVars, frSshKey,
                 frOutputDriveExists, frRepositoryExists, frDrive, frChowned,
                 frGit, frOps>>

NextFetch ==
  \/ \E c \in Calls : FrStart(c)
  \/ \E c \in Calls : LockStorage(c)
  \/ \E c \in Calls : AllocateIp(c)
  \/ \E c \in Calls : StartVM(c)
  \/ \E c \in Calls : WaitSsh(c)
  \/ \E c \in Calls : FrChown(c)
  \/ \E c \in Calls : FrInstallSshKey(c)
  \/ \E c \in Calls : FrTestRepository(c)
  \/ \E c \in Calls : FrGitFetch(c)
  \/ \E c \in Calls : FrGitClone(c)
  \/ \E c \in Calls : TeardownStep(c)
  \/ \E c \in Calls : ReleaseIp(c)
  \/ \E c \in Calls : FrSettle(c)

SpecFetch == Init /\ [][NextFetch]_vars

\* ---- prebuild around its withVM scope (lines 286-449) ----------------------
\* the withVM scope of the prebuild activity
PbCall == 1

\* a lookup that goes on without the event (findUnique)
AfterLookupNoThrow(found) == "withVM"

\* lines 300-305: findUniqueOrThrow rejects when the event does not exist,
\* otherwise prebuild goes on to withVM
AfterLookup(found) == IF found THEN "withVM" ELSE "threw"

\* lines 300-305: await db.prebuildEvent.findUniqueOrThrow, then the call of
\* withVM up to its first await
FindPrebuildEvent ==
  /\ pbPc = "lookup"
  /\ vmPc[PbCall] = "idle"
  /\ \E found \in BOOLEAN :
       /\ pbEvent' = IF found THEN "found" ELSE "missing"
       /\ pbPc' = AfterLookup(found)
       /\ vmPc' = [vmPc EXCEPT ![PbCall] = IF AfterLookup(found) = "withVM"
                                            THEN "allocate" ELSE @]
  /\ UNCHANGED <<storageVars, vmIpBlockId, vmErr, vmTeardown, vmThrown, prebuildVars,
                 wsVars, fsVars>>

\* lines 315-447: a step of the body, which runs once withVM has the VM up
PbBodyStep ==
  /\ vmPc[PbCall] = "body"
  /\ Next

\* line 446: the body has settled and withVM goes on to its teardown
PbBodyReturns ==
  /\ vmPc[PbCall] = "body"
  /\ bodyPc \in {"returned", "threw"}
  /\ vmErr' = [vmErr EXCEPT ![PbCall] = IF bodyPc = "returned" THEN @
                                        ELSE Append(@, "BodyFailed")]
  /\ vmPc' = [vmPc EXCEPT
                ![PbCall] = IF RunsTeardown(PrebuildVMConfig, bodyPc = "returned")
                            THEN "shutdown" ELSE "returned"]
  /\ UNCHANGED <<storageVars, vmIpBlockId, vmTeardown, vmThrown, prebuildVars, pbVars,
                 wsVars, fsVars>>

\* line 305: return await withVM(...) has settled
PbSettle ==
  /\ pbPc = "withVM"
  /\ vmPc[PbCall] \in {"returned", "threw"}
  /\ pbPc' = vmPc[PbCall]
  /\ UNCHANGED <<vmVarsOfScopes, prebuildVars, pbEvent, wsVars, fsVars>>

NextPrebuild ==
  \/ FindPrebuildEvent
  \/ LockStorage(PbCall)
  \/ AllocateIp(PbCall)
  \/ StartVM(PbCall)
  \/ WaitSsh(PbCall)
  \/ PbBodyStep
  \/ PbBodyReturns
  \/ TeardownStep(PbCall)
  \/ ReleaseIp(PbCall)
  \/ PbSettle

SpecPrebuild == Init /\ [][NextPrebuild]_vars

\* ==== properties ==========================================================
RECURSIVE ConcatRows(_)
ConcatRows(rows) ==
  IF rows = <<>> THEN <<>> ELSE Head(rows).content \o ConcatRows(Tail(rows))

TerminalCount(log) == Cardinality({k \in DOMAIN log : log[k] \in Terminal})

\* C1: in an invocation in which a task failed, when the body returns the first
\* task that failed is ERROR and is the only one (in the result list and in the
\* database), every other task is SUCCESS or CANCELLED, and the tasks that
\* were persisted SUCCESS before the first failure are still SUCCESS.
C1_CancellationMinimality ==
  (bodyPc = "returned" /\ firstFailed # 0) =>
    /\ results[firstFailed].status = VM_TASK_STATUS_ERROR
    /\ \A i \in Tasks \ {firstFailed} :
         /\ results[i].status \in {VM_TASK_STATUS_SUCCESS, VM_TASK_STATUS_CANCELLED}
         /\ dbStatus[i] # VM_TASK_STATUS_ERROR
    /\ dbStatus[firstFailed] # VM_TASK_STATUS_CANCELLED
    /\ \A i \in successBefore :
         /\ results[i].status = VM_TASK_STATUS_SUCCESS
         /\ dbStatus[i] = VM_TASK_STATUS_SUCCESS

C1_Witness ==
  /\ bodyPc = "returned"
  /\ firstFailed # 0
  /\ \E i \in Tasks : results[i].status = VM_TASK_STATUS_CANCELLED
                      /\ dbStatus[i] = VM_TASK_STATUS_CANCELLED

\* C2: the statuses persisted for a task are RUNNING, then at most one of
\* SUCCESS, ERROR, CANCELLED: no terminal status without RUNNING before it.
C2_RunningBeforeTerminal ==
  \A i \in Tasks :
    \/ statusLog[i] = <<>>
    \/ /\ statusLog[i][1] = VM_TASK_STATUS_RUNNING
       /\ Len(statusLog[i]) <= 2
       /\ Len(statusLog[i]) = 2 => statusLog[i][2] \in Terminal

\* C3 as stated: at most one terminal status is persisted per task, and no
\* task is RUNNING in the database when the body has returned.
C3_NoTaskEndsRunning ==
  /\ \A i \in Tasks : TerminalCount(statusLog[i]) <= 1
  /\ bodyPc = "returned" => \A i \in Tasks : dbStatus[i] # VM_TASK_STATUS_RUNNING

\* C3 amended: at most one terminal status is persisted per task, and when the
\* body has returned a task is RUNNING in the database only if the write of
\* its ERROR/CANCELLED status failed.
C3_TerminalExclusivity ==
  /\ \A i \in Tasks : TerminalCount(statusLog[i]) <= 1
  /\ bodyPc = "returned" =>
       \A i \in Tasks : dbStatus[i] = VM_TASK_STATUS_RUNNING => i \in termWriteFailed

C3_Witness ==
  /\ bodyPc = "returned"
  /\ \E i \in Tasks : dbStatus[i] = VM_TASK_STATUS_CANCELLED
  /\ \E i \in Tasks : dbStatus[i] = VM_TASK_STATUS_RUNNING

\* C4: whenever the ERROR/CANCELLED write of a failed task fails, the result
\* returned for that task carries the composite of the triggering error and
\* the write failure.
C4_CompositeErrorReported ==
  bodyPc = "returned" =>
    \A i \in termWriteFailed : results[i].error = <<err[i], "UpdateErr">>

\* C5: the Log rows of a log group, in the order they were persisted, carry
\* idx 0, 1, 2, ...: no gap, no duplicate, strictly increasing.
C5_LogContinuity ==
  \A i \in Tasks : \A k \in DOMAIN dbLog[i] : dbLog[i][k].idx = k - 1

C5_Witness ==
  \E i \in Tasks : Len(dbLog[i]) >= 1 /\ sync[i] = "LogCreateFailed"

\* C6: the body never throws; what it returns has one element per task, in
\* task order: SUCCESS exactly for the flows that fulfilled (their SUCCESS is
\* persisted), otherwise CANCELLED, or ERROR with the error the flow caught.
C6_ReturnsAlignedResults ==
  /\ bodyPc # "threw"
  /\ bodyPc = "returned" =>
       /\ Len(results) = NumTasks
       /\ \A i \in Tasks :
            /\ results[i].status \in Terminal
            /\ results[i].status = VM_TASK_STATUS_SUCCESS <=>
                 (statusLog[i] # <<>>
                  /\ statusLog[i][Len(statusLog[i])] = VM_TASK_STATUS_SUCCESS)
            /\ results[i].status = VM_TASK_STATUS_ERROR =>
                 (results[i].error # <<>> /\ results[i].error[1] = err[i])
            /\ results[i].status = VM_TASK_STATUS_CANCELLED => err[i] # "none"

C6_Witness ==
  /\ bodyPc = "returned"
  /\ \E i \in Tasks : results[i].status = VM_TASK_STATUS_ERROR
  /\ \E i \in Tasks : results[i].status = VM_TASK_STATUS_SUCCESS

\* C7 as stated: cleanupStarted never goes back to false, a failure after the
\* cleanup began changes no taskCancelled entry, and no handle is disposed
\* more than once.
C7_SetOnceNoDoubleDispose ==
  [][/\ cleanupStarted => (cleanupStarted' /\ taskCancelled' = taskCancelled)
     /\ \A i \in Tasks : disposeCount'[i] <= 1]_vars

\* C7 amended: cleanupStarted never goes back to false, a failure after the
\* cleanup began changes no taskCancelled entry and disposes nothing through
\* the cleanup, and the cleanup disposes each handle at most once.
C7_CleanupRunsOnce ==
  [][/\ cleanupStarted => /\ cleanupStarted'
                          /\ taskCancelled' = taskCancelled
                          /\ cleanupDisposals' = cleanupDisposals
     /\ \A i \in Tasks : cleanupDisposals'[i] <= 1]_vars

C7_Witness ==
  /\ cleanupStarted
  /\ \E i \in Tasks : i # firstFailed /\ err[i] # "none" /\ disposeCount[i] >= 2

\* C8: a task whose exec was in flight when the first failure was caught has
\* its session disposed and its exec failed, and its handler persists
\* CANCELLED (unless that very write fails); after a first failure the body
\* eventually returns, whether or not the commands of the siblings ever end.
C8_CancellationCompletes ==
  /\ \A i \in Tasks :
       (i \in inFlight) ~>
         /\ exec[i] = "SshDisposed"
         /\ cleanupDisposals[i] >= 1
         /\ dbStatus[i] = VM_TASK_STATUS_CANCELLED \/ i \in termWriteFailed
  /\ (firstFailed # 0) ~> (bodyPc = "returned")

C8_Witness ==
  /\ bodyPc = "returned"
  /\ \E i \in inFlight : exec[i] = "SshDisposed"
                           /\ dbStatus[i] = VM_TASK_STATUS_CANCELLED
                           /\ delivered[i] # <<>>

\* C9: when the body returned and no task failed, the rows persisted for a
\* task, concatenated in idx order, are the chunks delivered to its callbacks.
C9_AllChunksPersisted ==
  (bodyPc = "returned" /\ firstFailed = 0) =>
    \A i \in Tasks : ConcatRows(dbLog[i]) = delivered[i]

\* C10: once every activity invocation has returned or thrown, whatever failed
\* in it (allocation, VM start, SSH readiness, body, teardown steps), the
\* persisted busy-IP set is empty.
C10_NoIpLeak ==
  (\A c \in Calls : vmPc[c] \in {"returned", "threw"}) => busyIpIds = <<>>

C10_Witness ==
  /\ \A c \in Calls : vmPc[c] \in {"returned", "threw"}
  /\ \E c \in Calls : /\ Len(vmErr[c]) >= 2
                      /\ vmErr[c][1] = "BodyFailed"
                      /\ vmErr[c][2] = "TeardownFailed"
  /\ \E c \in Calls : vmPc[c] = "returned"

\* the teardown of shutdownVMAndReleaseResources, run to its end
FullTeardown == <<"shutdown", "kill", "removeTap", "deleteSocket", "release">>

\* every persisted busy id is held by a withVM scope or a running workspace
NoLeakedIpBlock ==
  \A k \in DOMAIN busyIpIds : \E d \in Calls : vmIpBlockId[d] = busyIpIds[k]

\* C11: withVM runs the teardown on every exit path except when shouldPoweroff
\* is false and the body returned: a startWorkspace whose body failed goes
\* through the teardown and ends with its IP block released; one that returned
\* keeps its VM untouched and its IP block busy until stopWorkspace is invoked
\* with the returned value, whose teardown then releases the block
C11_TeardownUnlessHandedOver ==
  \A c \in Calls :
    /\ wsPc[c] = "threw" => vmPc[c] \in TeardownSteps \cup {"release", "releasing", "threw"}
    /\ vmPc[c] = "threw" =>
         /\ vmIpBlockId[c] = 0
         /\ NoLeakedIpBlock
         /\ vmTeardown[c] \in {<<>>, FullTeardown}
         /\ vmTeardown[c] = <<>> => vmErr[c] = <<"NoFreeIpBlock">>
    /\ (wsPc[c] = "returned" /\ ~wsStopped[c]) =>
         /\ vmPc[c] = "returned"
         /\ vmTeardown[c] = <<>>
         /\ wsResult[c] # 0
         /\ vmIpBlockId[c] = wsResult[c]
         /\ \E k \in DOMAIN busyIpIds : busyIpIds[k] = wsResult[c]
    /\ (wsStopped[c] /\ vmPc[c] \in {"returned", "threw"}) =>
         /\ vmIpBlockId[c] = 0
         /\ NoLeakedIpBlock
         /\ vmTeardown[c] = FullTeardown

\* one startWorkspace body failed and was torn down, another returned and was
\* released by stopWorkspace
C11_Witness ==
  \E c, d \in Workspaces :
    /\ wsPc[c] = "threw" /\ vmPc[c] = "threw" /\ vmErr[c] = <<"TaskFailed">>
    /\ wsPc[d] = "returned" /\ wsStopped[d] /\ vmPc[d] = "returned"

\* C12: if checkoutAndInspect fails at any step (copying the source drive, VM
\* boot, git checkout, config read or validation, VM teardown), the output
\* drive file does not exist when the function throws
C12_NoOutputDriveAfterFailure ==
  [][\A c \in Calls : (coPc[c] # "threw" /\ coPc'[c] = "threw") => coOutput' = "absent"]_vars

\* the values of a sequence
Range(seq) == {seq[k] : k \in DOMAIN seq}

\* C13: two concurrent allocate() calls never return the same IP block id; in
\* every reachable state each busy id lies in [MINIMUM_IP_ID, MAXIMUM_IP_ID]
\* and occurs at most once in the persisted busyIpIds
C13_DistinctBlocksWithinPool ==
  /\ \A c, d \in Calls :
       (c # d /\ vmIpBlockId[c] # 0) => vmIpBlockId[c] # vmIpBlockId[d]
  /\ \A k \in DOMAIN busyIpIds :
       /\ busyIpIds[k] \in MINIMUM_IP_ID..MAXIMUM_IP_ID
       /\ \A l \in DOMAIN busyIpIds : l # k => busyIpIds[l] # busyIpIds[k]

\* one allocate() is inside the critical section while a second allocate() and
\* a release() of a block handed out earlier are waiting for it
C13_Witness ==
  \E c, d, e \in Calls :
    /\ vmPc[c] = "allocating" /\ storageLock = c
    /\ vmPc[d] = "allocate"
    /\ vmPc[e] = "release" /\ vmIpBlockId[e] # 0

\* C14: when every id of the pool is busy allocate() fails with NoFreeIpBlock
\* and leaves the busy set unchanged: a withVM opened while the blocks are held
\* fails; when an id is free (the holder has returned) allocate() succeeds with
\* an id that was not busy
C14_ExhaustedPoolFails ==
  [][\A c \in Calls :
       (vmPc[c] = "allocating" /\ vmPc'[c] # "allocating") =>
         IF MINIMUM_IP_ID..MAXIMUM_IP_ID \subseteq Range(busyIpIds)
         THEN /\ vmPc'[c] = "threw"
              /\ vmErr'[c] = <<"NoFreeIpBlock">>
              /\ vmIpBlockId'[c] = 0
              /\ busyIpIds' = busyIpIds
         ELSE /\ vmPc'[c] = "startVM"
              /\ vmIpBlockId'[c] \in (MINIMUM_IP_ID..MAXIMUM_IP_ID) \ Range(busyIpIds)
              /\ busyIpIds' = Append(busyIpIds, vmIpBlockId'[c])]_vars

\* the first withVM has returned, the second failed with NoFreeIpBlock while a
\* block was held, the third holds the block the first gave back
C14_Witness ==
  \E c, d, e \in Calls :
    /\ vmPc[c] = "returned" /\ vmErr[c] = <<>>
    /\ vmPc[d] = "threw" /\ vmErr[d] = <<"NoFreeIpBlock">>
    /\ vmPc[e] = "body" /\ vmIpBlockId[e] # 0 /\ vmIpBlockId[e] \in Range(busyIpIds)

\* C15: of two fetchRepository invocations with the same arguments that both
\* return, the first, which found no output drive, has created the drive,
\* chowned the mount point and cloned, in this order; the second has found
\* project/.git and fetched, with no drive creation, chown or clone, and
\* project/.git is present afterwards
C15_SecondInvocationFetches ==
  \A c \in Calls :
    frPc[c] = "returned" =>
      /\ ~frOutputDriveExists[c] => frOps[c] = <<"create", "chown", "clone">>
      /\ (\E b \in Calls : b < c /\ frPc[b] = "returned") =>
           /\ frOutputDriveExists[c] /\ frRepositoryExists[c]
           /\ frOps[c] = <<"fetch">>
      /\ frDrive /\ frGit = "present"

\* the first invocation created, chowned and cloned, the next one fetched
C15_Witness ==
  \E c \in Calls :
    /\ c + 1 \in Calls
    /\ frPc[c] = "returned" /\ frOps[c] = <<"create", "chown", "clone">>
    /\ frPc[c + 1] = "returned" /\ frOps[c + 1] = <<"fetch">>

\* C16: in startWorkspace authorized_keys is written before any task is
\* launched; the network is switched to public only after every task was
\* launched and its PID captured; the keys reach the SSH gateway only after the
\* network switch; when an earlier step failed the network is never made
\* public and the gateway never receives the keys
C16_StartWorkspaceOrder ==
  \A c \in Calls :
    /\ (\E t \in Tasks : wsTaskPc[c][t] # "idle") => wsKeysWritten[c]
    /\ wsLaunched[c] # {} => wsKeysWritten[c]
    /\ wsNetwork[c] = "public" => (wsLaunched[c] = Tasks /\ wsPids[c] = Tasks)
    /\ c \in gatewayKeys => wsNetwork[c] = "public"
    /\ (vmErr[c] # <<>> /\ vmErr[c][1] \notin {"NetworkFailed", "GatewayFailed", "TeardownFailed"}) =>
         (wsNetwork[c] = "private" /\ c \notin gatewayKeys)
    /\ (vmErr[c] # <<>> /\ vmErr[c][1] = "NetworkFailed") => c \notin gatewayKeys

\* one startWorkspace went through all its steps, another lost a task after
\* launching one and stayed private
C16_Witness ==
  \E c, d \in Workspaces :
    /\ wsPc[c] = "returned" /\ c \in gatewayKeys /\ wsNetwork[c] = "public"
    /\ wsPc[d] = "threw" /\ vmErr[d][1] = "TaskFailed" /\ wsLaunched[d] # {}
    /\ wsNetwork[d] = "private" /\ d \notin gatewayKeys

\* the teardown steps of seq that failed
TeardownFailures(errs) == SelectSeq(errs, LAMBDA e : e = "TeardownFailed")

\* C17: the teardown of withVM is resilient: when a teardown step fails
\* (graceful shutdown, kill, tap device removal, socket deletion) the steps
\* after it still run, in order, and the IP block is released
C17_TeardownResilient ==
  \A c \in Calls :
    /\ vmTeardown[c] = SubSeq(FullTeardown, 1, Len(vmTeardown[c]))
    /\ vmPc[c] \in TeardownSteps => vmIpBlockId[c] # 0
    /\ (vmPc[c] \in {"returned", "threw"} /\ TeardownFailures(vmErr[c]) # <<>>) =>
         /\ vmTeardown[c] = FullTeardown
         /\ vmIpBlockId[c] = 0
         /\ NoLeakedIpBlock

\* every one of the four steps failed and the IP block was released all the same
C17_Witness ==
  \E c \in Calls :
    /\ vmPc[c] = "threw"
    /\ Len(TeardownFailures(vmErr[c])) = 4
    /\ vmTeardown[c] = FullTeardown
    /\ vmIpBlockId[c] = 0 /\ busyIpIds = <<>>

\* C18: an error thrown by the body of withVM reaches the caller only after
\* the teardown has run; when the body and the teardown both fail the caller
\* gets one composite error carrying both causes; when only the teardown
\* fails its error is thrown directly
C18_ErrorsSurfaceAfterTeardown ==
  \A c \in Calls :
    /\ vmPc[c] # "threw" => vmThrown[c] = NoError
    /\ vmPc[c] = "threw" =>
         LET bodyFailed == "BodyFailed" \in Range(vmErr[c])
             teardownFailed == TeardownFailures(vmErr[c]) # <<>>
         IN  /\ bodyFailed => vmTeardown[c] = FullTeardown
             /\ (bodyFailed /\ teardownFailed) =>
                  vmThrown[c] = [kind |-> "composite",
                                 causes |-> <<"BodyFailed", "TeardownFailed">>]
             /\ (bodyFailed /\ ~teardownFailed) =>
                  vmThrown[c] = [kind |-> "direct", causes |-> <<"BodyFailed">>]
             /\ (teardownFailed /\ vmErr[c] = TeardownFailures(vmErr[c])) =>
                  vmThrown[c] = [kind |-> "direct", causes |-> <<"TeardownFailed">>]

\* one caller got the composite of body and teardown error, another the
\* teardown error alone
C18_Witness ==
  \E c, d \in Calls :
    /\ vmPc[c] = "threw" /\ vmThrown[c].kind = "composite"
    /\ vmErr[c] = <<"BodyFailed", "TeardownFailed">>
    /\ vmPc[d] = "threw" /\ vmErr[d] = <<"TeardownFailed">>
    /\ vmThrown[d].kind = "direct"

\* C19: a persisted ERROR or CANCELLED is terminal over any sequence of
\* prebuild invocations for the same prebuild event: once either is persisted
\* for a task no later status write changes the task's status, and no task is
\* persisted both ERROR and CANCELLED
C19_ErrorAndCancelledTerminal ==
  /\ [](\A i \in Tasks :
          ~(VM_TASK_STATUS_ERROR \in Range(statusLog[i])
            /\ VM_TASK_STATUS_CANCELLED \in Range(statusLog[i])))
  /\ [][\A i \in Tasks :
          dbStatus[i] \in {VM_TASK_STATUS_ERROR, VM_TASK_STATUS_CANCELLED} =>
            dbStatus'[i] = dbStatus[i]]_vars

\* the errors syncLogs ends with: line 340, and a rejected db.log.create
SyncFailures == {"CleanupStarted", "LogCreateFailed"}

\* C20: whenever the log-sync loop of a task fails (it observed
\* cleanupStarted, or db.log.create failed) the task's SSH session is
\* disposed, its exec does not complete as a success, and the task does not
\* end SUCCESS
C20_FailedSyncStopsTask ==
  \A i \in Tasks :
    sync[i] \in SyncFailures =>
      /\ disposeCount[i] >= 1
      /\ exec[i] # "ok"
      /\ VM_TASK_STATUS_SUCCESS \notin Range(statusLog[i])
      /\ promise[i] # "fulfilled"

\* C20, amended: whenever the log-sync loop of a task fails the task's SSH
\* session is disposed, an exec still in flight is failed by the dispose (an
\* exec that had already exited with success stays one), and the task does not
\* end SUCCESS
C20_FailedSyncDisposesAndFailsTask ==
  \A i \in Tasks :
    sync[i] \in SyncFailures =>
      /\ disposeCount[i] >= 1
      /\ exec[i] # "running"
      /\ pc[i] # "updateSuccess"
      /\ VM_TASK_STATUS_SUCCESS \notin Range(statusLog[i])
      /\ promise[i] # "fulfilled"

\* a failed db.log.create disposed the session under a running exec, and the
\* task ended ERROR
C20_Witness ==
  \E i \in Tasks :
    /\ sync[i] = "LogCreateFailed"
    /\ exec[i] = "SshDisposed"
    /\ pc[i] = "done"
    /\ dbStatus[i] = VM_TASK_STATUS_ERROR

\* task i is CANCELLED in the database or in the returned list
Cancelled(i) ==
  \/ VM_TASK_STATUS_CANCELLED \in Range(statusLog[i])
  \/ bodyPc = "returned" /\ results[i].status = VM_TASK_STATUS_CANCELLED

\* C21: a task is persisted or reported CANCELLED only if a sibling failed
\* first and the task had not completed then: a task whose command had exited
\* cleanly before any sibling failed is never CANCELLED, and no task is
\* CANCELLED in an invocation without a task designated ERROR.  (The cleanup
\* of the first failure disposes every running exec and no exec starts after
\* it, so an exec that is "ok" once a task failed had exited before.)
C21_CancelledOnlyIfUnfinished ==
  \A i \in Tasks :
    Cancelled(i) =>
      /\ firstFailed \notin {0, i}
      /\ ~taskCancelled[firstFailed]
      /\ exec[i] # "ok"

\* C22: every task SSH handle is in the shared list before its exec starts;
\* once cleanupStarted is true no task registers a handle or starts an exec;
\* hence every exec that ever started belongs to a handle that the
\* cancellation step disposed.
C22_ExecsRegisteredAndDisposed ==
  /\ [](\A i \in Tasks : exec[i] # "none" => i \in Registered)
  /\ [](cleanupStarted =>
          \A i \in Tasks : exec[i] # "none" => cleanupDisposals[i] >= 1)
  /\ [][cleanupStarted =>
          /\ taskSshHandles' = taskSshHandles
          /\ \A i \in Tasks : exec[i] = "none" => exec'[i] = "none"]_vars

\* a task whose exec started was disposed by the cancellation step, and a task
\* that entered its withSsh body afterwards registered nothing and ran nothing
C22_Witness ==
  \E i, j \in Tasks :
    /\ exec[i] # "none" /\ cleanupDisposals[i] >= 1
    /\ err[j] = "CleanupAlreadyStarted"
    /\ exec[j] = "none" /\ j \notin Registered

\* the rows of a log group ordered by idx (rows of equal idx keep their order)
RECURSIVE RowsInIdxOrder(_)
RowsInIdxOrder(rows) ==
  IF rows = <<>> THEN <<>>
  ELSE LET last == rows[Len(rows)]
           rest == RowsInIdxOrder(SubSeq(rows, 1, Len(rows) - 1))
       IN SelectSeq(rest, LAMBDA r : r.idx <= last.idx) \o <<last>>
            \o SelectSeq(rest, LAMBDA r : r.idx > last.idx)

IsPrefix(a, b) == Len(a) <= Len(b) /\ SubSeq(b, 1, Len(a)) = a

\* C23: in every state, the Log rows persisted for a task's log group,
\* concatenated in idx order, are a prefix of the chunks delivered to
\* onStdout/onStderr: no chunk twice, none reordered, none skipped between
\* two persisted rows.
C23_PersistedLogIsPrefix ==
  \A i \in Tasks : IsPrefix(ConcatRows(RowsInIdxOrder(dbLog[i])), delivered[i])

\* two rows were persisted for one log group, each after its own flush
C23_Witness ==
  \E i \in Tasks : Len(dbLog[i]) >= 2 /\ ConcatRows(dbLog[i]) = delivered[i]

\* C24: when the prebuild activity returns, the status reported for each task
\* in the result list equals the task's persisted status in the database,
\* whatever the interleaving and the failure point, failed status writes
\* included.
C24_ReportedEqualsPersisted ==
  bodyPc = "returned" =>
    \A i \in Tasks : results[i].status = dbStatus[i]

\* C25: after fetchRepository invocations on the same output drive of which
\* earlier ones may have failed at any suspension point, an invocation that
\* reaches git clone or git fetch runs it on a mount point that has already
\* been chowned to the build user.
C25_GitRunsOnChownedMount ==
  \A c \in Calls : frPc[c] \in {"clone", "fetch"} => frChowned

\* C26: when prebuild is invoked again for the same prebuild event, the
\* (logGroupId, idx) pairs of the persisted Log rows stay unique and gap-free
\* per log group: no invocation writes an idx that is already persisted.
C26_LogIdxUniqueAcrossInvocations ==
  \A i \in Tasks :
    /\ \A k, l \in DOMAIN dbLog[i] : k # l => dbLog[i][k].idx # dbLog[i][l].idx
    /\ {dbLog[i][k].idx : k \in DOMAIN dbLog[i]} = 0..(Len(dbLog[i]) - 1)

\* C27: if the prebuild event id does not exist, prebuild fails before it
\* opens its withVM scope: no IP block is allocated, no VM is started and no
\* task status or log row is written.
C27_MissingEventFailsBeforeWithVM ==
  pbEvent = "missing" =>
    /\ pbPc = "threw"
    /\ vmPc[PbCall] = "idle"
    /\ vmIpBlockId[PbCall] = 0 /\ busyIpIds = <<>>
    /\ vmTeardown[PbCall] = <<>>
    /\ \A i \in Tasks :
         /\ dbStatus[i] = VM_TASK_STATUS_PENDING /\ statusLog[i] = <<>>
         /\ dbLog[i] = <<>>

\* the lookup found no event and prebuild has thrown
C27_Witness == pbEvent = "missing" /\ pbPc = "threw"

====
